---------------------------- MODULE Spec2Model ----------------------------
(* A model of labelimg_data_converter.py: the Flattener (ImageData), the   *)
(* Annotation Converter (MetaData), the Splitter (TrainingData) and the   *)
(* command-line entry (parse_args, main).                                 *)
(*                                                                         *)
(* File and directory names are sequences of one-character strings, so    *)
(* that Python's slicing and str.split are computed, not assumed.         *)
(* Floats are exact fractions [num, den] with den > 0.                    *)
EXTENDS Integers, Sequences, FiniteSets, TLC

VARIABLES
    pc,                    \* position of the program
    percentage_test,       \* -p, in tenths (5 is 0.5)
    tree,                  \* the input root: the annotation files under it
    todo_dirs,             \* directories the outer glob has still to yield
    movie_dir,             \* the directory of the current outer iteration
    todo_xml,              \* files the inner glob has still to yield
    copies,                \* the copyfile calls made so far
    copied_pairs_count,    \* ImageData.copied_pairs_count
    dir,                   \* the flattened directory: base name -> pair
    manifests,             \* "absent", "open" or "closed"
    file_train,            \* lines of <header>-train.txt
    file_test,             \* lines of <header>-test.txt
    visited,               \* the annotation files split() has taken, in order
    detected_pairs_count,  \* TrainingData.detected_pairs_count
    processed_count,       \* TrainingData.processed_count
    txt,                   \* the .txt files written: base name -> lines
    xml_name,              \* the argument of a sanitize_id call
    xml_id                 \* what that call returned

vars == << pc, percentage_test, tree, todo_dirs, movie_dir, todo_xml, copies,
           copied_pairs_count, dir, manifests, file_train, file_test, visited,
           detected_pairs_count, processed_count, txt, xml_name, xml_id >>

-----------------------------------------------------------------------------
(* Strings                                                                 *)

Digits == {"0", "1", "2", "3", "4", "5", "6", "7", "8", "9"}

MOVIE == << "m", "o", "v", "i", "e" >>
FRAME == << "f", "r", "a", "m", "e" >>
XML == << ".", "x", "m", "l" >>
UNDERSCORE == << "_" >>
ZERO == << "0" >>

\* s[-n:]
LastChars(s, n) ==
    IF Len(s) <= n THEN s ELSE SubSeq(s, Len(s) - n + 1, Len(s))

\* s.startswith(p)
StartsWith(s, p) ==
    /\ Len(p) <= Len(s)
    /\ SubSeq(s, 1, Len(p)) = p

\* the places where sep occurs in s
Occurrences(s, sep) ==
    { i \in 1..(Len(s) - Len(sep) + 1) : SubSeq(s, i, i + Len(sep) - 1) = sep }

Min(S) == CHOOSE x \in S : \A y \in S : x <= y

\* s.split(sep)[0]
SplitFirst(s, sep) ==
    IF Occurrences(s, sep) = {} THEN s
    ELSE SubSeq(s, 1, Min(Occurrences(s, sep)) - 1)

\* s.split(sep)[1], for an s in which sep occurs
SplitSecond(s, sep) ==
    LET rest == SubSeq(s, Min(Occurrences(s, sep)) + Len(sep), Len(s))
    IN  SplitFirst(rest, sep)

\* s.isdigit()
IsDigit(s) ==
    /\ Len(s) > 0
    /\ \A i \in 1..Len(s) : s[i] \in Digits

\* s[1:]
DropFirst(s) == IF Len(s) = 0 THEN s ELSE Tail(s)

-----------------------------------------------------------------------------
(* ImageData.sanitize_id                                                   *)

\* A variant that keeps the character the "0" is meant to replace.
PaddedIdNoDrop(xml) ==
    LET id == SplitFirst(LastChars(xml, 8), XML)
    IN  IF ~IsDigit(id) THEN ZERO \o id ELSE id

\* The value of xml_id when the two assertions are reached.
PaddedId(xml) ==
    LET id == SplitFirst(LastChars(xml, 8), XML)
    IN  IF ~IsDigit(id) THEN ZERO \o DropFirst(id) ELSE id

\* A variant without the first assertion.
IdAssertsLenOnly(id) == Len(id) = 4

\* assert(xml_id.isdigit()); assert(len(xml_id) == 4)
IdAsserts(id) == IsDigit(id) /\ Len(id) = 4

IdFailed == [ok |-> FALSE, id |-> << >>]

\* The outcome of the call: the id returned, or an AssertionError.
sanitize_id(xml) ==
    IF IdAsserts(PaddedId(xml))
    THEN [ok |-> TRUE, id |-> PaddedId(xml)]
    ELSE IdFailed

-----------------------------------------------------------------------------
(* ImageData.sanitize                                                      *)

\* dest_file_name_header, the -e option
FileHeader == << "s" >>

\* glob.iglob(os.path.join(self.input_dir, 'movie*')): the matching names
GlobMovie(name) == StartsWith(name, MOVIE)

\* movie_dir_name.split('movie')[1]
MovieDirId(movie_dir_name) == SplitSecond(movie_dir_name, MOVIE)

\* A variant that leaves the session id out of the name.
ProperNameNoSession(movie_dir_name, id) ==
    FileHeader \o UNDERSCORE \o FRAME \o id

\* proper_file_name_head + xml_id: the output name of the pair, less its
\* extension (proper_xml_name and proper_jpg_name add ".xml" and ".jpg")
ProperName(movie_dir_name, id) ==
    FileHeader \o MovieDirId(movie_dir_name) \o UNDERSCORE \o FRAME \o id

\* A variant that never misses the image.
JpgPathExistsAlways(f) == TRUE

\* os.path.exists(jpg_path) for an annotation of the input tree, whose
\* stem holds no ".xml" (jpg_path is then the stem plus ".jpg")
JpgPathExists(f) == f.jpg

\* sanitize(), up to the outer loop.
SanitizeStart ==
    /\ pc = "main"
    /\ pc' = "sanitize"
    /\ copied_pairs_count' = 0
    /\ todo_dirs' = { f.dir : f \in { g \in tree : GlobMovie(g.dir) } }
    /\ todo_xml' = {}
    /\ UNCHANGED << percentage_test, tree, movie_dir, copies, dir, manifests,
                    file_train, file_test, visited, detected_pairs_count,
                    processed_count, txt, xml_name, xml_id >>

\* The outer loop takes its next directory, in whatever order glob yields.
SanitizeDir ==
    /\ pc = "sanitize"
    /\ todo_xml = {}
    /\ \E d \in todo_dirs :
         /\ movie_dir' = d
         /\ todo_dirs' = todo_dirs \ {d}
         /\ todo_xml' = { f \in tree : f.dir = d }
    /\ UNCHANGED << pc, percentage_test, tree, copies, copied_pairs_count, dir,
                    manifests, file_train, file_test, visited,
                    detected_pairs_count, processed_count, txt, xml_name, xml_id >>

\* One iteration of the inner loop over glob('*.xml').
SanitizeFile ==
    /\ pc = "sanitize"
    /\ \E f \in todo_xml :
         /\ todo_xml' = todo_xml \ {f}
         /\ IF ~JpgPathExists(f)
            THEN UNCHANGED << pc, copies, copied_pairs_count, dir >>
            ELSE LET r == sanitize_id(f.stem \o XML)
                     name == ProperName(movie_dir, r.id)
                 IN  IF ~r.ok
                     THEN /\ pc' = "aborted"
                          /\ UNCHANGED << copies, copied_pairs_count, dir >>
                     ELSE /\ dir' = (name :> [jpg |-> TRUE, ann |-> f.ann]) @@ dir
                          /\ copies' = copies \cup
                               { [dir |-> f.dir, stem |-> f.stem, name |-> name] }
                          /\ copied_pairs_count' = copied_pairs_count + 1
                          /\ UNCHANGED pc
    /\ UNCHANGED << percentage_test, tree, todo_dirs, movie_dir, manifests,
                    file_train, file_test, visited, detected_pairs_count,
                    processed_count, txt, xml_name, xml_id >>

\* Both loops are over: main prints the count and goes on to the Splitter.
SanitizeEnd ==
    /\ pc = "sanitize"
    /\ todo_xml = {}
    /\ todo_dirs = {}
    /\ pc' = "TrainingData"
    /\ UNCHANGED << percentage_test, tree, todo_dirs, movie_dir, todo_xml, copies,
                    copied_pairs_count, dir, manifests, file_train, file_test,
                    visited, detected_pairs_count, processed_count, txt, xml_name,
                    xml_id >>

\* A call of sanitize_id on its own.
SanitizeIdCall ==
    /\ pc = "sanitize_id"
    /\ xml_id' = sanitize_id(xml_name).id
    /\ pc' = IF sanitize_id(xml_name).ok THEN "returned" ELSE "aborted"
    /\ UNCHANGED << percentage_test, tree, todo_dirs, movie_dir, todo_xml, copies,
                    copied_pairs_count, dir, manifests, file_train, file_test,
                    visited, detected_pairs_count, processed_count, txt, xml_name >>

-----------------------------------------------------------------------------
(* MetaData.convert                                                        *)

\* The positional argument "cat,dog": classes[v] = i for i, v in enumerate.
ClassList == << "cat", "dog" >>

\* name in self.classes
InClasses(name) == \E i \in 1..Len(ClassList) : ClassList[i] = name

Max(S) == CHOOSE x \in S : \A y \in S : y <= x

\* self.classes[name]: a later entry of the list replaces an earlier one
ClassId(name) == Max({ i \in 1..Len(ClassList) : ClassList[i] = name }) - 1

\* img_width and img_height before the first size node: None
NoSize == [ok |-> TRUE, set |-> FALSE, width |-> 0, height |-> 0]

\* A variant without the assertion on depth.
SizeStepNoDepth(st, size) ==
    IF ~st.ok THEN st
    ELSE IF st.set THEN [st EXCEPT !.ok = FALSE]
    ELSE [ok |-> TRUE, set |-> TRUE, width |-> size.width, height |-> size.height]

\* One iteration of "for size in root.iter('size')".
SizeStep(st, size) ==
    IF ~st.ok THEN st
    ELSE IF size.depth # 3 THEN [st EXCEPT !.ok = FALSE]
    ELSE IF st.set THEN [st EXCEPT !.ok = FALSE]
    ELSE [ok |-> TRUE, set |-> TRUE, width |-> size.width, height |-> size.height]

RECURSIVE SizeLoop(_, _)
SizeLoop(st, sizes) ==
    IF sizes = << >> THEN st
    ELSE SizeLoop(SizeStep(st, Head(sizes)), Tail(sizes))

\* assert(img_width > 0); assert(img_height > 0): None fails them too.
SizeAsserts(st) == st.ok /\ st.set /\ st.width > 0 /\ st.height > 0

\* The four assertions on a bndbox node.
BoxAsserts(box) ==
    box.xmin > 0 /\ box.xmax > 0 /\ box.ymin > 0 /\ box.ymax > 0

\* A variant that takes the center from xmax and ymax.
BoxLineFromMax(class_id, box, img_width, img_height) ==
    LET abs_width == box.xmax - box.xmin
        abs_height == box.ymax - box.ymin
    IN  [ class_id |-> class_id,
          xcenter |-> [num |-> abs_width + 2 * box.xmax, den |-> 2 * img_width],
          ycenter |-> [num |-> abs_height + 2 * box.ymax, den |-> 2 * img_height],
          rel_width |-> [num |-> abs_width, den |-> img_width],
          rel_height |-> [num |-> abs_height, den |-> img_height] ]

\* The line appended to obj_data for one bndbox.
\*   abs_width = xmax - xmin; xcenter = (abs_width/2 + xmin)/img_width
BoxLine(class_id, box, img_width, img_height) ==
    LET abs_width == box.xmax - box.xmin
        abs_height == box.ymax - box.ymin
    IN  [ class_id |-> class_id,
          xcenter |-> [num |-> abs_width + 2 * box.xmin, den |-> 2 * img_width],
          ycenter |-> [num |-> abs_height + 2 * box.ymin, den |-> 2 * img_height],
          rel_width |-> [num |-> abs_width, den |-> img_width],
          rel_height |-> [num |-> abs_height, den |-> img_height] ]

\* "for bndbox in obj.iter('bndbox')", from the lines gathered so far.
RECURSIVE BoxLoop(_, _, _, _, _)
BoxLoop(acc, class_id, boxes, img_width, img_height) ==
    IF ~acc.ok \/ boxes = << >> THEN acc
    ELSE IF ~BoxAsserts(Head(boxes)) THEN [acc EXCEPT !.ok = FALSE]
    ELSE BoxLoop([acc EXCEPT !.lines =
                      Append(@, BoxLine(class_id, Head(boxes), img_width, img_height))],
                 class_id, Tail(boxes), img_width, img_height)

\* Whether an object node is converted or passed over ("wrong class").
Recognized(obj) == InClasses(obj.name)

\* "for obj in root.iter('object')".
RECURSIVE ObjectLoop(_, _, _, _)
ObjectLoop(acc, objects, img_width, img_height) ==
    IF ~acc.ok \/ objects = << >> THEN acc
    ELSE IF ~Recognized(Head(objects))
         THEN ObjectLoop(acc, Tail(objects), img_width, img_height)
    ELSE ObjectLoop(BoxLoop(acc, ClassId(Head(objects).name), Head(objects).boxes,
                            img_width, img_height),
                    Tail(objects), img_width, img_height)

Aborted == [kind |-> "abort", lines |-> << >>]

\* The outcome of convert(xml) on an annotation: an uncaught error ("abort"),
\* False with no file written ("false"), or True with obj_data written ("true").
convert(ann) ==
    LET st == SizeLoop(NoSize, ann.sizes)
    IN  IF ann.root # "annotation" THEN Aborted
        ELSE IF ~SizeAsserts(st) THEN Aborted
        ELSE LET acc == ObjectLoop([ok |-> TRUE, lines |-> << >>], ann.objects,
                                   st.width, st.height)
             IN  IF ~acc.ok THEN Aborted
                 ELSE IF acc.lines = << >> THEN [kind |-> "false", lines |-> << >>]
                 ELSE [kind |-> "true", lines |-> acc.lines]

-----------------------------------------------------------------------------
(* TrainingData                                                            *)

\* The values random() is drawn from, in tenths: [0.0, 1.0).
RandomValues == 0..9

\* assert(0.0 < percentage_test and percentage_test < 1.0)
SplitterAssert(p) == 0 < p /\ p < 10

\* os.path.exists(jpg_path) for an annotation of the flattened directory
JpgExists(name) == dir[name].jpg

\* split(), up to the loop: the counters are reset, the manifests truncated.
SplitOpen ==
    /\ pc = "split"
    /\ manifests = "absent"
    /\ manifests' = "open"
    /\ file_train' = << >>
    /\ file_test' = << >>
    /\ detected_pairs_count' = 0
    /\ processed_count' = 0
    /\ UNCHANGED << pc, percentage_test, tree, todo_dirs, movie_dir, todo_xml,
                    copies, copied_pairs_count, dir, visited, txt, xml_name,
                    xml_id >>

\* One iteration of the loop over glob('*.xml'), in whatever order glob yields.
SplitFile ==
    /\ pc = "split"
    /\ manifests = "open"
    /\ \E name \in DOMAIN dir :
         /\ \A i \in 1..Len(visited) : visited[i] # name
         /\ visited' = Append(visited, name)
         /\ IF ~JpgExists(name)
            THEN UNCHANGED << pc, detected_pairs_count, processed_count,
                              file_train, file_test, txt >>
            ELSE LET processed == convert(dir[name].ann)
                 IN  /\ detected_pairs_count' = detected_pairs_count + 1
                     /\ CASE processed.kind = "abort" ->
                               /\ pc' = "aborted"
                               /\ UNCHANGED << processed_count, file_train,
                                               file_test, txt >>
                          [] processed.kind = "false" ->
                               UNCHANGED << pc, processed_count, file_train,
                                            file_test, txt >>
                          [] processed.kind = "true" ->
                               /\ txt' = (name :> processed.lines) @@ txt
                               /\ \E r \in RandomValues :
                                    IF r < percentage_test
                                    THEN /\ file_test' = Append(file_test, name)
                                         /\ UNCHANGED file_train
                                    ELSE /\ file_train' = Append(file_train, name)
                                         /\ UNCHANGED file_test
                               /\ processed_count' = processed_count + 1
                               /\ UNCHANGED pc
    /\ UNCHANGED << percentage_test, tree, todo_dirs, movie_dir, todo_xml, copies,
                    copied_pairs_count, dir, manifests, xml_name, xml_id >>

\* The loop is over: both manifests are closed, and main prints its summary.
SplitClose ==
    /\ pc = "split"
    /\ manifests = "open"
    /\ \A name \in DOMAIN dir : \E i \in 1..Len(visited) : visited[i] = name
    /\ manifests' = "closed"
    /\ pc' = "done"
    /\ UNCHANGED << percentage_test, tree, todo_dirs, movie_dir, todo_xml, copies,
                    copied_pairs_count, dir, file_train, file_test, visited,
                    detected_pairs_count, processed_count, txt, xml_name, xml_id >>

-----------------------------------------------------------------------------
(* parse_args and main                                                     *)

\* Range(0.0, 1.0).__eq__(other), the one member of choices=[...], in tenths
RangeEq(start, end, other) == start <= other /\ other <= end

\* parse_args(): argparse accepts -p when it equals a member of choices.
ParseArgs ==
    /\ pc = "parse_args"
    /\ pc' = IF RangeEq(0, 10, percentage_test) THEN "main" ELSE "rejected"
    /\ UNCHANGED << percentage_test, tree, todo_dirs, movie_dir, todo_xml, copies,
                    copied_pairs_count, dir, manifests, file_train, file_test,
                    visited, detected_pairs_count, processed_count, txt, xml_name,
                    xml_id >>

\* TrainingData.__init__, called by main after sanitize() has returned.
TrainingDataInit ==
    /\ pc = "TrainingData"
    /\ pc' = IF SplitterAssert(percentage_test) THEN "split" ELSE "aborted"
    /\ UNCHANGED << percentage_test, tree, todo_dirs, movie_dir, todo_xml, copies,
                    copied_pairs_count, dir, manifests, file_train, file_test,
                    visited, detected_pairs_count, processed_count, txt, xml_name,
                    xml_id >>

-----------------------------------------------------------------------------
(* Inputs                                                                  *)

MaxIdLen == 5      \* characters between "frame" and ".xml"
MaxObjects == 2    \* object nodes of an annotation
MaxDim == 3        \* image width and height, in pixels
MaxFiles == 2      \* annotation files of a flattened directory
MaxTreeFiles == 2  \* annotation files under the input root

\* All sequences over S of length at most n.
SeqsUpTo(S, n) == UNION { [1..k -> S] : k \in 0..n }

\* All subsets of S of at most n elements.
RECURSIVE SubsetsUpTo(_, _)
SubsetsUpTo(S, n) ==
    IF n = 0 THEN { {} }
    ELSE LET P == SubsetsUpTo(S, n - 1)
         IN  P \cup { p \cup {x} : p \in P, x \in S }

\* File names handed to sanitize_id: with and without "frame", digits or not.
IdAlphabet == {"0", "2", "3", "x"}
XmlNames ==
    { prefix \o s \o XML : prefix \in { << >>, FRAME },
                           s \in SeqsUpTo(IdAlphabet, MaxIdLen) }

GoodSize == [width |-> 4, height |-> 4, depth |-> 3]
SizeLists ==
    { << >>, << GoodSize >>, << [GoodSize EXCEPT !.depth = 1] >>,
      << [GoodSize EXCEPT !.width = 0] >>, << GoodSize, GoodSize >> }

Box1 == [xmin |-> 1, xmax |-> 3, ymin |-> 1, ymax |-> 3]
Box2 == [xmin |-> 2, xmax |-> 4, ymin |-> 1, ymax |-> 2]
BadBox == [xmin |-> 0, xmax |-> 2, ymin |-> 1, ymax |-> 2]
BoxLists == { << >>, << Box1 >>, << Box2 >>, << BadBox >>, << Box1, Box2 >> }

ObjectNames == {"cat", "dog", "bird"}
Objects == [name : ObjectNames, boxes : BoxLists]

Cat == [name |-> "cat", boxes |-> << Box1 >>]
OneCat == [root |-> "annotation", sizes |-> << GoodSize >>, objects |-> << Cat >>]

\* Annotations of every structure: the size nodes, the objects, their boxes.
RichAnnotations ==
    [root : {"annotation"}, sizes : SizeLists, objects : SeqsUpTo(Objects, MaxObjects)]
      \cup { [OneCat EXCEPT !.root = "html"] }

\* Annotations of one object with one box, over every size and coordinate.
WideAnnotations ==
    { [root |-> "annotation",
       sizes |-> << [width |-> w, height |-> h, depth |-> 3] >>,
       objects |-> << [name |-> "dog",
                       boxes |-> << [xmin |-> x1, xmax |-> x2,
                                     ymin |-> y1, ymax |-> y2] >>] >>] :
      w \in 1..MaxDim, h \in 1..MaxDim,
      x1 \in 0..(MaxDim + 1), x2 \in 0..(MaxDim + 1),
      y1 \in 0..(MaxDim + 1), y2 \in 0..(MaxDim + 1) }

\* A few annotations for directories of several files.
FewAnnotations ==
    { OneCat,
      [OneCat EXCEPT !.objects = << [name |-> "bird", boxes |-> << Box1 >>] >>],
      [OneCat EXCEPT !.objects = << [name |-> "cat", boxes |-> << >>] >>],
      [OneCat EXCEPT !.sizes = << [GoodSize EXCEPT !.depth = 1] >>] }

FlatNames ==
    { ProperName(MOVIE \o << "1" >>, << "0", "0", "2", "3" >>),
      ProperName(MOVIE \o << "1" >>, << "1", "2", "3", "4" >>),
      ProperName(MOVIE \o << "2" >>, << "0", "0", "2", "3" >>) }

\* The flattened directories split() is run on.
FlatDirs(names, annotations) ==
    UNION { [D -> [jpg : BOOLEAN, ann : annotations]] : D \in SUBSET names }

OneFileDirs ==
    FlatDirs({ CHOOSE n \in FlatNames : TRUE }, RichAnnotations \cup WideAnnotations)

SeveralFileDirs ==
    UNION { [D -> [jpg : BOOLEAN, ann : FewAnnotations]] :
            D \in SubsetsUpTo(FlatNames, MaxFiles) }

\* The input roots main is run on.
DirNames ==
    { MOVIE \o << "1" >>, MOVIE \o << "1", "2" >>, MOVIE,
      MOVIE \o << "a", "b" >>, << "o", "t", "h", "e", "r" >> }
Stems ==
    { FRAME \o << "0", "2", "3" >>, FRAME \o << "0", "0", "2", "3" >>,
      FRAME \o << "1", "2", "3", "4" >>, FRAME \o << "2", "3" >> }
TreeFiles == [dir : DirNames, stem : Stems, jpg : BOOLEAN, ann : {OneCat}]

\* A tree holds one annotation at most under a given directory and name.
Trees ==
    { t \in SubsetsUpTo(TreeFiles, MaxTreeFiles) :
        \A f, g \in t : (f.dir = g.dir /\ f.stem = g.stem) => f = g }

\* -p on the command line, in tenths: 0.0, 0.5, 1.0 and 1.1
Percentages == {0, 5, 10, 11}

-----------------------------------------------------------------------------
(* Specifications                                                          *)

Idle ==
    /\ todo_dirs = {}
    /\ movie_dir = << >>
    /\ todo_xml = {}
    /\ copies = {}
    /\ copied_pairs_count = 0
    /\ manifests = "absent"
    /\ file_train = << >>
    /\ file_test = << >>
    /\ visited = << >>
    /\ detected_pairs_count = 0
    /\ processed_count = 0
    /\ txt = << >>
    /\ xml_id = << >>

\* The whole program: parse_args(), then main().
Init ==
    /\ pc = "parse_args"
    /\ percentage_test \in Percentages
    /\ tree \in Trees
    /\ dir = << >>
    /\ xml_name = << >>
    /\ Idle

Next ==
    \/ ParseArgs
    \/ SanitizeStart
    \/ SanitizeDir
    \/ SanitizeFile
    \/ SanitizeEnd
    \/ TrainingDataInit
    \/ SplitOpen
    \/ SplitFile
    \/ SplitClose

Spec == Init /\ [][Next]_vars

\* TrainingData.split() on a flattened directory.
InitSplit ==
    /\ pc = "split"
    /\ \/ percentage_test = 5 /\ dir \in OneFileDirs
       \/ percentage_test \in {1, 9} /\ dir \in SeveralFileDirs
    /\ tree = {}
    /\ xml_name = << >>
    /\ Idle

NextSplit ==
    \/ SplitOpen
    \/ SplitFile
    \/ SplitClose

SpecSplit == InitSplit /\ [][NextSplit]_vars

\* ImageData.sanitize_id() on a file name.
InitId ==
    /\ pc = "sanitize_id"
    /\ xml_name \in XmlNames
    /\ percentage_test = 5
    /\ tree = {}
    /\ dir = << >>
    /\ Idle

NextId == SanitizeIdCall

SpecId == InitId /\ [][NextId]_vars

-----------------------------------------------------------------------------
(* Vocabulary of the claims                                                *)

\* s without its first n characters
After(s, n) == SubSeq(s, n + 1, Len(s))

\* "movie" followed by one or more digits
IsMovieDigits(name) == StartsWith(name, MOVIE) /\ IsDigit(After(name, 5))

\* "frame" followed by three or four digits
IsFrameStem(stem) ==
    /\ StartsWith(stem, FRAME)
    /\ IsDigit(After(stem, 5))
    /\ Len(After(stem, 5)) \in {3, 4}

\* The 4-digit frame id of such a stem: a 3-digit id gets one "0" in front.
CanonId(stem) ==
    IF Len(After(stem, 5)) = 3 THEN ZERO \o After(stem, 5) ELSE After(stem, 5)

\* <header><session_id>_frame<4-digit-frame-id>
CanonName(f) ==
    FileHeader \o After(f.dir, 5) \o UNDERSCORE \o FRAME \o CanonId(f.stem)

\* The input layout: movie<digits>/frame<3-4 digits>.xml with matching .jpg
Layout ==
    \A f \in tree : IsMovieDigits(f.dir) /\ IsFrameStem(f.stem) /\ f.jpg

\* sanitize() has returned.
Flattened == pc \in {"TrainingData", "split", "done"}

\* The inner loop of sanitize() has taken annotation f.
Taken(f) ==
    /\ pc \notin {"parse_args", "rejected", "main"}
    /\ GlobMovie(f.dir)
    /\ f.dir \notin todo_dirs
    /\ f \notin todo_xml

InSeq(x, s) == \E i \in 1..Len(s) : s[i] = x

\* The objects of an annotation whose class name is in the class map, in order.
RecognizedObjects(ann) == SelectSeq(ann.objects, Recognized)

\* The boxes of those objects, in the order of the annotation.
RECURSIVE BoxesOf(_)
BoxesOf(objects) ==
    IF objects = << >> THEN << >>
    ELSE Head(objects).boxes \o BoxesOf(Tail(objects))

\* A fraction in [0, 1].
InUnit(q) == q.den > 0 /\ 0 <= q.num /\ q.num <= q.den

\* Positive coordinates with xmin < xmax <= width and ymin < ymax <= height.
InBounds(box, size) ==
    /\ size.width > 0 /\ size.height > 0
    /\ box.xmin > 0 /\ box.ymin > 0
    /\ box.xmin < box.xmax /\ box.xmax <= size.width
    /\ box.ymin < box.ymax /\ box.ymax <= size.height

NonPositive(box) ==
    box.xmin <= 0 \/ box.xmax <= 0 \/ box.ymin <= 0 \/ box.ymax <= 0

\* Every recognized object of the annotation has exactly one bndbox node.
OneBoxEach(ann) ==
    \A i \in 1..Len(ann.objects) :
        Recognized(ann.objects[i]) => Len(ann.objects[i].boxes) = 1

-----------------------------------------------------------------------------
(* C1 *)

\* C1: after split() completes, the lines of the train manifest plus the lines
\* of the test manifest number the annotation files that have a paired .jpg and
\* hold at least one object whose class name is in the class map.
C1_ManifestCount ==
    pc = "done" =>
        Len(file_train) + Len(file_test) =
            Cardinality({ name \in DOMAIN dir :
                            /\ dir[name].jpg
                            /\ RecognizedObjects(dir[name].ann) # << >> })

\* What holds instead: the manifests count the paired files for which convert()
\* gathered a line, that is, with a bndbox under a recognized object.
ManifestCountByBoxes ==
    pc = "done" =>
        Len(file_train) + Len(file_test) =
            Cardinality({ name \in DOMAIN dir :
                            /\ dir[name].jpg
                            /\ BoxesOf(RecognizedObjects(dir[name].ann)) # << >> })

-----------------------------------------------------------------------------
(* C2 *)

\* split() got True from convert() for this file.
ReturnedTrue(name) == InSeq(name, file_train) \/ InSeq(name, file_test)

\* convert() has run on this file and has not aborted.
Converted(name) ==
    /\ InSeq(name, visited)
    /\ dir[name].jpg
    /\ convert(dir[name].ann).kind # "abort"

\* C2: for an annotation that passes the schema checks, convert() with no
\* recognized object writes no .txt and returns False; with one or more it
\* writes one line per recognized object, in the annotation's order, and
\* returns True.
C2_LinePerObject ==
    \A name \in DOMAIN dir :
        Converted(name) =>
            LET recs == RecognizedObjects(dir[name].ann)
            IN  IF recs = << >>
                THEN name \notin DOMAIN txt /\ ~ReturnedTrue(name)
                ELSE /\ name \in DOMAIN txt
                     /\ ReturnedTrue(name)
                     /\ Len(txt[name]) = Len(recs)
                     /\ \A j \in 1..Len(recs) :
                            txt[name][j].class_id = ClassId(recs[j].name)

\* What holds instead: one line per bndbox node of the recognized objects.
LinePerBox ==
    \A name \in DOMAIN dir :
        Converted(name) =>
            LET boxes == BoxesOf(RecognizedObjects(dir[name].ann))
            IN  IF boxes = << >>
                THEN name \notin DOMAIN txt /\ ~ReturnedTrue(name)
                ELSE /\ name \in DOMAIN txt
                     /\ ReturnedTrue(name)
                     /\ Len(txt[name]) = Len(boxes)

\* And the claim as it stands, for annotations with one bndbox per object.
LinePerObjectWhenOneBoxEach ==
    \A name \in DOMAIN dir :
        (Converted(name) /\ OneBoxEach(dir[name].ann)) =>
            LET recs == RecognizedObjects(dir[name].ann)
            IN  IF recs = << >>
                THEN name \notin DOMAIN txt /\ ~ReturnedTrue(name)
                ELSE /\ name \in DOMAIN txt
                     /\ ReturnedTrue(name)
                     /\ Len(txt[name]) = Len(recs)
                     /\ \A j \in 1..Len(recs) :
                            txt[name][j].class_id = ClassId(recs[j].name)

-----------------------------------------------------------------------------
(* C3 *)

\* C3: with a test fraction of 0.0 or 1.0 the run stops before any processing:
\* the Flattener copies no file, and no manifest or .txt file is created.
C3_BoundaryRejected ==
    percentage_test \in {0, 10} =>
        /\ copies = {}
        /\ DOMAIN dir = {}
        /\ manifests = "absent"
        /\ DOMAIN txt = {}

\* What holds instead: no manifest or .txt file is created with such a fraction.
BoundaryNeverSplits ==
    percentage_test \in {0, 10} => manifests = "absent" /\ DOMAIN txt = {}

-----------------------------------------------------------------------------
(* C4 *)

\* C4: for a box with positive coordinates, xmin < xmax <= width and
\* ymin < ymax <= height, the x-center, y-center, relative width and relative
\* height convert() writes each lie in [0, 1].
C4_Normalized ==
    \A name \in DOMAIN txt :
        LET ann == dir[name].ann
            boxes == BoxesOf(RecognizedObjects(ann))
        IN  \A j \in 1..Len(txt[name]) :
                InBounds(boxes[j], ann.sizes[1]) =>
                    /\ InUnit(txt[name][j].xcenter)
                    /\ InUnit(txt[name][j].ycenter)
                    /\ InUnit(txt[name][j].rel_width)
                    /\ InUnit(txt[name][j].rel_height)

\* A box that reaches the right and bottom edges of the image was converted.
C4_Witness ==
    \E name \in DOMAIN txt :
        LET ann == dir[name].ann
            boxes == BoxesOf(RecognizedObjects(ann))
        IN  /\ Len(txt[name]) = 1
            /\ InBounds(boxes[1], ann.sizes[1])
            /\ boxes[1].xmax = ann.sizes[1].width
            /\ boxes[1].ymax = ann.sizes[1].height
            /\ boxes[1].xmin > 1

-----------------------------------------------------------------------------
(* C5 *)

\* The characters of a file name between "frame" and ".xml".
FrameDigits(xml) == SubSeq(xml, 6, Len(xml) - 4)

IsFrameName(xml, n) ==
    /\ Len(xml) = 9 + n
    /\ StartsWith(xml, FRAME)
    /\ After(xml, 5 + n) = XML
    /\ IsDigit(FrameDigits(xml))

\* C5: sanitize_id() on frame<ddd>.xml returns the id with one "0" in front,
\* on frame<dddd>.xml the id itself; it returns nothing but four digits, and
\* fails its assertions whenever the id it derived is not four digits.
C5_SanitizeId ==
    pc # "sanitize_id" =>
        /\ IsFrameName(xml_name, 3) =>
               pc = "returned" /\ xml_id = ZERO \o FrameDigits(xml_name)
        /\ IsFrameName(xml_name, 4) =>
               pc = "returned" /\ xml_id = FrameDigits(xml_name)
        /\ pc = "returned" => IsDigit(xml_id) /\ Len(xml_id) = 4
        /\ ~(IsDigit(PaddedId(xml_name)) /\ Len(PaddedId(xml_name)) = 4) =>
               pc = "aborted"

\* frame023.xml has come back as 0023.
C5_Witness ==
    /\ pc = "returned"
    /\ xml_name = FRAME \o << "0", "2", "3" >> \o XML
    /\ xml_id = << "0", "0", "2", "3" >>

-----------------------------------------------------------------------------
(* C6 *)

Frame23 == FRAME \o << "2", "3" >>

\* C6, as stated: the pair frame23.xml / frame23.jpg is copied under the
\* 4-digit frame id 0023.
C6_TwoDigitPadded ==
    \A f \in tree :
        (f.stem = Frame23 /\ f.jpg /\ Taken(f)) =>
            [dir |-> f.dir, stem |-> f.stem,
             name |-> ProperName(f.dir, << "0", "0", "2", "3" >>)] \in copies

\* C6, amended: the pair frame23.xml / frame23.jpg is never copied; when the
\* Flattener takes it, sanitize_id fails its assertion and the run aborts.
C6_TwoDigitAborts ==
    /\ \A c \in copies : c.stem # Frame23
    /\ \A f \in tree :
           (f.stem = Frame23 /\ f.jpg /\ Taken(f)) =>
               pc = "aborted" /\ manifests = "absent"

\* The Flattener has taken such a pair, after copying another one.
C6_Witness ==
    /\ pc = "aborted"
    /\ copies # {}
    /\ \E f \in tree : f.stem = Frame23 /\ f.jpg /\ Taken(f)

-----------------------------------------------------------------------------
(* C7 *)

\* C7, as stated: on a tree that follows the input layout no two source pairs
\* get the same output name, and copied_pairs_count is the number of pairs in
\* the output directory.
C7_CollisionFree ==
    Layout =>
        /\ \A c1, c2 \in copies : c1.name = c2.name => c1 = c2
        /\ Flattened => copied_pairs_count = Cardinality(DOMAIN dir)

\* C7, amended: on such a tree two different source pairs get the same output
\* name only when they lie in the same session directory and their frame ids
\* are the same once the 3-digit one is padded (frame023 and frame0023); the
\* later copy then replaces the earlier. copied_pairs_count is the number of
\* pairs copied, and the output directory holds one pair per session directory
\* and padded frame id.
C7_CollisionsOnlyByPadding ==
    Layout =>
        /\ \A c1, c2 \in copies :
               c1.name = c2.name =>
                   c1.dir = c2.dir /\ CanonId(c1.stem) = CanonId(c2.stem)
        /\ copied_pairs_count = Cardinality(copies)
        /\ Cardinality(DOMAIN dir) =
               Cardinality({ << c.dir, CanonId(c.stem) >> : c \in copies })

\* frame023 and frame0023 of one session were both copied, to one name.
C7_Witness ==
    /\ Layout
    /\ pc = "done"
    /\ copied_pairs_count = 2
    /\ Cardinality(DOMAIN dir) = 1
    /\ \E c1, c2 \in copies : c1 # c2 /\ c1.dir = c2.dir /\ c1.name = c2.name

-----------------------------------------------------------------------------
(* C8 *)

\* C8: sanitize() copies no file from a subdirectory whose name is not
\* "movie" followed by one or more digits.
C8_OnlyMovieDigits == \A c \in copies : IsMovieDigits(c.dir)

\* What holds instead: every copy comes from a directory that glob's 'movie*'
\* matches.
OnlyMoviePrefix == \A c \in copies : GlobMovie(c.dir)

-----------------------------------------------------------------------------
(* C9 *)

\* The annotations of the scanned directories whose companion image exists.
ScannedPairs == { f \in tree : GlobMovie(f.dir) /\ f.jpg }

\* C9: sanitize() never copies an annotation whose .jpg is absent, and such an
\* annotation never aborts the run (an abort in sanitize() comes from a paired
\* annotation that is not frame<3-4 digits>); once sanitize() has returned,
\* every paired annotation of the scanned directories has been copied under
\* its canonical name, and copied_pairs_count is their number.
C9_PairsCopied ==
    /\ \A c \in copies :
           \E f \in tree : f.dir = c.dir /\ f.stem = c.stem /\ f.jpg
    /\ (pc = "aborted" /\ SplitterAssert(percentage_test) /\ manifests = "absent") =>
           \E f \in ScannedPairs : Taken(f) /\ ~IsFrameStem(f.stem)
    /\ Flattened =>
           /\ \A f \in ScannedPairs :
                  /\ [dir |-> f.dir, stem |-> f.stem, name |-> CanonName(f)] \in copies
                  /\ CanonName(f) \in DOMAIN dir
           /\ copied_pairs_count = Cardinality(ScannedPairs)

\* sanitize() has returned after one annotation with its image and one without.
C9_Witness ==
    /\ pc = "TrainingData"
    /\ copied_pairs_count = 1
    /\ \E f, g \in tree :
           /\ GlobMovie(f.dir) /\ f.jpg
           /\ GlobMovie(g.dir) /\ ~g.jpg
           /\ f.dir = g.dir

-----------------------------------------------------------------------------
(* C10 *)

BadSizes(ann) ==
    \/ \E i \in 1..Len(ann.sizes) : ann.sizes[i].depth # 3
    \/ Len(ann.sizes) > 1

\* The violations of the claim as stated: any object's box counts.
Violation(ann) ==
    \/ BadSizes(ann)
    \/ \E i \in 1..Len(ann.objects) :
           \E j \in 1..Len(ann.objects[i].boxes) :
               NonPositive(ann.objects[i].boxes[j])

\* The violations of the claim as amended: only a recognized object's box.
RecognizedViolation(ann) ==
    \/ BadSizes(ann)
    \/ \E i \in 1..Len(ann.objects) :
           /\ Recognized(ann.objects[i])
           /\ \E j \in 1..Len(ann.objects[i].boxes) :
                  NonPositive(ann.objects[i].boxes[j])

\* convert() aborted on the file split() took at place i, and split() stopped.
AbortedAt(i) ==
    /\ pc = "aborted"
    /\ i = Len(visited)
    /\ visited[i] \notin DOMAIN txt
    /\ ~ReturnedTrue(visited[i])

\* C10, as stated: a size block of depth other than 3, a second size block, or
\* a non-positive coordinate in any object's box makes convert() abort without
\* writing a .txt, and split() takes no further file.
C10_ViolationFatal ==
    \A i \in 1..Len(visited) :
        (dir[visited[i]].jpg /\ Violation(dir[visited[i]].ann)) => AbortedAt(i)

\* C10, amended: the same, for a non-positive coordinate in the box of an
\* object whose class name is in the class map; the box of an object with an
\* unrecognized class name is never read.
C10_RecognizedViolationFatal ==
    \A i \in 1..Len(visited) :
        (dir[visited[i]].jpg /\ RecognizedViolation(dir[visited[i]].ann)) =>
            AbortedAt(i)

\* split() has stopped on a file of the wrong depth with a file still to take.
C10_Witness ==
    /\ pc = "aborted"
    /\ Len(visited) = 1
    /\ Cardinality(DOMAIN dir) = 2
    /\ dir[visited[1]].ann.sizes[1].depth # 3

=============================================================================
